---- MODULE Spec2Model ----
(***************************************************************************)
(* Model of src/main.py: the s2 -> s3 ProductModelID reconciliation        *)
(* pipeline.  Tables are sequences of rows, Python dicts are functions,    *)
(* text that is converted or matched character-wise (variation tags,       *)
(* identifiers, headers, cell text) is a tuple of one-character strings.   *)
(***************************************************************************)
EXTENDS Integers, Sequences, FiniteSets, TLC

VARIABLES
    abbr_df,            \* abbreviation rows [code, variation, description] after dropna
    mapping_cols,       \* column names of the mapping table
    mapping_df,         \* mapping rows [Description, ModelNumber, ProductModelID]
    main_cols,          \* headers of the main table, left to right
    main_df,            \* main table: main_df[r][c], r = 1..rows (data index r-1)
    orig_fill,          \* fill of the original sheet: orig_fill[sheet row][column]
    pc,                 \* position in the script
    err,                \* the exception that ended the run ("" while none)
    s3_df, s2_df,       \* the variation subsets
    code_to_s3_desc, code_to_s2_desc, desc_to_number,
    replace_pairs, missing_count,
    key_columns, found_numbers,
    main_df_copy, replacements_log,
    pair_idx,           \* position of the outer find-and-replace loop
    passes,             \* how many times the find-and-replace loop has been run
    new_sheet,          \* rebuilt sheet: new_sheet[sheet row][column] = [value, fill]
    output_written      \* TRUE once workbook.save(output_file) has returned

vars == <<abbr_df, mapping_cols, mapping_df, main_cols, main_df, orig_fill, pc, err,
          s3_df, s2_df, code_to_s3_desc, code_to_s2_desc, desc_to_number,
          replace_pairs, missing_count, key_columns, found_numbers,
          main_df_copy, replacements_log, pair_idx, passes, new_sheet, output_written>>

inputs == <<abbr_df, mapping_cols, mapping_df, main_cols, main_df, orig_fill>>

----------------------------------------------------------------------------
(* Text helpers *)

Range(f) == {f[x] : x \in DOMAIN f}

\* pandas' missing value (an empty spreadsheet cell) in a text column
NaN == "NaN"
\* Python's None, the result of dict.get on an absent key
None == "None"

DigitChar == <<"0", "1", "2", "3", "4", "5", "6", "7", "8", "9">>

\* str(n) of a non-negative Python int
RECURSIVE IntToStr(_)
IntToStr(n) ==
    IF n < 10 THEN <<DigitChar[n + 1]>>
    ELSE IntToStr(n \div 10) \o <<DigitChar[(n % 10) + 1]>>

\* str.lower on the characters the model uses
LowerChar(c) == CASE c = "S" -> "s" [] c = "K" -> "k" [] c = "E" -> "e"
                  [] c = "N" -> "n" [] OTHER -> c
Lower(s) == [i \in 1..Len(s) |-> LowerChar(s[i])]

\* t occurs in s as a substring
Contains(s, t) ==
    \E i \in 1..(Len(s) - Len(t) + 1) : SubSeq(s, i, i + Len(t) - 1) = t

\* Series.str.contains(t, case=False)
ContainsNoCase(s, t) == Contains(Lower(s), Lower(t))

\* str.startswith
StartsWith(s, t) == Len(s) >= Len(t) /\ SubSeq(s, 1, Len(t)) = t

\* A spreadsheet cell as pandas holds it: an int, a float (n.0), text or NaN
IntCell(n) == [t |-> "int", n |-> n, s |-> <<>>]
FloatCell(n) == [t |-> "float", n |-> n, s |-> <<>>]
StrCell(s) == [t |-> "str", n |-> 0, s |-> s]
NaNCell == [t |-> "nan", n |-> 0, s |-> <<>>]

\* str(x) of a cell value, as Series.astype(str) applies it to each element
ToStr(cell) ==
    CASE cell.t = "int" -> IntToStr(cell.n)
      [] cell.t = "float" -> IntToStr(cell.n) \o <<".", "0">>
      [] cell.t = "nan" -> <<"n", "a", "n">>
      [] OTHER -> cell.s

\* Series.unique(): the distinct elements in order of first appearance
RECURSIVE Unique(_)
Unique(s) ==
    IF s = <<>> THEN <<>>
    ELSE LET u == Unique(SubSeq(s, 1, Len(s) - 1))
             x == s[Len(s)]
         IN IF x \in Range(u) THEN u ELSE Append(u, x)

----------------------------------------------------------------------------
(* Configuration *)

s3_variation == <<"s", "3">>
s2_variation == <<"s", "2">>
required_mapping_cols == <<"Description", "ProductModelID">>
KeyPrefix == <<"K", "e", "y">>
yellow_fill == "FFFF99"

----------------------------------------------------------------------------
(* Variation Filter and Translation Builder *)

\* abbr_df['variation'].astype(str)
CoerceVariation(df) ==
    [i \in 1..Len(df) |-> [df[i] EXCEPT !.variation = StrCell(ToStr(df[i].variation))]]

\* abbr_df[abbr_df['variation'].str.contains(tag, case=False, na=False)]
TagMatches(row, tag) == ContainsNoCase(row.variation.s, tag)
FilterVariation(df, tag) == SelectSeq(df, LAMBDA row : TagMatches(row, tag))

\* GroupBy.first() of one group: the first description that is not null, or null
\* when the group has none (first() skips missing values)
FirstInGroup(df, code) ==
    LET rows == SelectSeq(df, LAMBDA row : row.code = code)
        filled == SelectSeq(rows, LAMBDA row : row.description # NaN)
    IN IF filled = <<>> THEN NaN ELSE filled[1].description

\* df.groupby('code').first()['description'].to_dict(); groupby drops a null code
CodeToDesc(df) ==
    [code \in {df[i].code : i \in 1..Len(df)} \ {NaN} |-> FirstInGroup(df, code)]

\* mapping_df.set_index('ModelNumber')['ProductModelID'].astype(str).to_dict():
\* keyed by the ModelNumber column; of several rows with one key, the last stays
IndexColumn == "ModelNumber"
DescToNumber(mdf) ==
    [k \in {mdf[i][IndexColumn] : i \in 1..Len(mdf)} |->
        LET last == CHOOSE i \in 1..Len(mdf) :
                        /\ mdf[i][IndexColumn] = k
                        /\ \A j \in (i + 1)..Len(mdf) : mdf[j][IndexColumn] # k
        IN ToStr(mdf[last].ProductModelID)]

\* dict.get(key)
DictGet(d, key) == IF key \in DOMAIN d THEN d[key] ELSE None

\* truth value of a description in `if s2_desc and ...` (None and '' are false,
\* NaN is a non-zero float and so true)
Truthy(desc) == desc # None /\ desc # ""

\* `desc and desc in desc_to_number`
Resolves(desc, d2n) == Truthy(desc) /\ desc \in DOMAIN d2n

\* PairStep without the miss of the s3 branch (line 111 left out)
PairStepNoS3Miss(acc, code, c2s2, c2s3, d2n) ==
    LET s2_desc == DictGet(c2s2, code)
        s3_desc == DictGet(c2s3, code)
    IN IF Truthy(s2_desc) /\ s2_desc \in DOMAIN d2n
       THEN IF Truthy(s3_desc) /\ s3_desc \in DOMAIN d2n
            THEN [acc EXCEPT !.pairs = Append(@, <<d2n[s2_desc], d2n[s3_desc]>>)]
            ELSE acc
       ELSE [acc EXCEPT !.missing = @ + 1]

\* One iteration of the loop over s2_codes; acc = [pairs, missing]
PairStep(acc, code, c2s2, c2s3, d2n) ==
    LET s2_desc == DictGet(c2s2, code)
        s3_desc == DictGet(c2s3, code)
    IN IF Resolves(s2_desc, d2n)
       THEN IF Resolves(s3_desc, d2n)
            THEN [acc EXCEPT !.pairs = Append(@, <<d2n[s2_desc], d2n[s3_desc]>>)]
            ELSE [acc EXCEPT !.missing = @ + 1]
       ELSE [acc EXCEPT !.missing = @ + 1]

\* The loop `for code in s2_codes`
RECURSIVE BuildPairs(_, _, _, _)
BuildPairs(codes, c2s2, c2s3, d2n) ==
    IF codes = <<>> THEN [pairs |-> <<>>, missing |-> 0]
    ELSE PairStep(BuildPairs(SubSeq(codes, 1, Len(codes) - 1), c2s2, c2s3, d2n),
                  codes[Len(codes)], c2s2, c2s3, d2n)

\* s2_df['code'].unique()
S2Codes(df) == Unique([i \in 1..Len(df) |-> df[i].code])

----------------------------------------------------------------------------
(* Key-Column Scanner and Substitution Engine *)

\* IsKeyColumn with the prefix compared without regard to case
IsKeyColumnAnyCase(col) == StartsWith(Lower(col), Lower(KeyPrefix))

\* [col for col in main_df.columns if col.startswith('Key')]
IsKeyColumn(col) == StartsWith(col, KeyPrefix)
KeyColumns(cols) == SelectSeq(cols, IsKeyColumn)

\* main_df.columns.get_loc(col) + 1 (the headers are distinct)
GetLoc1(cols, col) == CHOOSE c \in 1..Len(cols) : cols[c] = col

\* the diagnostic scan: some s2 identifier occurs as a substring in a key column
FoundNumbers(df, cols, keys, pairs) ==
    \E k \in 1..Len(keys), r \in 1..Len(df), p \in 1..Len(pairs) :
        Contains(ToStr(df[r][GetLoc1(cols, keys[k])]), pairs[p][1])

\* Matches by substring, as the diagnostic scan compares
MatchesSubstring(cell, old_value) == Contains(ToStr(cell), old_value)

\* mask = main_df_copy[col].astype(str) == old_value
Matches(cell, old_value) == ToStr(cell) = old_value

\* Series.astype(str).replace(old, new) on one element: every element becomes
\* its string form, and the elements equal to old become new
ReplaceCell(cell, old_value, new_value) ==
    IF ToStr(cell) = old_value THEN StrCell(new_value) ELSE StrCell(ToStr(cell))

\* the ReplacementRecord of data row r (1-based here, index r - 1 in pandas)
LogRecord(r, c, col, old_value, new_value) ==
    [row |-> (r - 1) + 2, column |-> c, column_name |-> col,
     old_value |-> old_value, new_value |-> new_value]

\* The body of `for col in key_columns` for one column; st = [df, log]
ReplaceInColumn(st, cols, col, old_value, new_value) ==
    LET c == GetLoc1(cols, col)
        rows == 1..Len(st.df)
        hit == {r \in rows : Matches(st.df[r][c], old_value)}
        hitSeq == SelectSeq([r \in rows |-> r], LAMBDA r : r \in hit)
    IN IF hit = {} THEN st
       ELSE [df |-> [r \in rows |->
                       [st.df[r] EXCEPT ![c] = ReplaceCell(@, old_value, new_value)]],
             log |-> st.log \o [i \in 1..Len(hitSeq) |->
                                  LogRecord(hitSeq[i], c, col, old_value, new_value)]]

\* `for col in key_columns` for one pair
RECURSIVE ReplaceInColumns(_, _, _, _, _)
ReplaceInColumns(st, cols, keys, old_value, new_value) ==
    IF keys = <<>> THEN st
    ELSE ReplaceInColumn(
             ReplaceInColumns(st, cols, SubSeq(keys, 1, Len(keys) - 1), old_value, new_value),
             cols, keys[Len(keys)], old_value, new_value)

----------------------------------------------------------------------------
(* Annotated Writer *)

\* new_cell._style = copy(cell._style), then the value, then the highlight:
\* the cell at sheet row r, column c of the rebuilt sheet
HeaderRow(cols) == [c \in 1..Len(cols) |-> StrCell(cols[c])]
SheetData(cols, df) == <<HeaderRow(cols)>> \o df
Highlighted(log, r, c) == \E i \in 1..Len(log) : log[i].row = r /\ log[i].column = c
NewCell(style, value, log, r, c) ==
    [value |-> value,
     style |-> IF Highlighted(log, r, c) THEN [style EXCEPT !.fill = yellow_fill] ELSE style]
BuildSheet(cols, df, log, styles) ==
    LET data == SheetData(cols, df)
    IN [r \in 1..Len(data) |->
          [c \in 1..Len(cols) |-> NewCell(styles[r][c], data[r][c], log, r, c)]]

----------------------------------------------------------------------------
(* Inputs *)

MaxAbbrRows == 3
MaxRows == 2

SeqsUpTo(S, n) == UNION {[1..k -> S] : k \in 1..n}

Codes == {"A1", "B2"}
Descriptions == {"Widget", "Widget Pro"}
VarS2 == StrCell(<<"s", "2", "-", "e">>)
VarS3 == StrCell(<<"x", "S", "3">>)
VariationCells == {VarS2, VarS3}

AbbrRows == [code : Codes, variation : VariationCells, description : Descriptions \cup {NaN}]
AbbrTables == SeqsUpTo(AbbrRows, MaxAbbrRows)

AllMappingCols == {"Description", "ModelNumber", "ProductModelID"}
MappingRow(desc, model, id) ==
    [Description |-> desc, ModelNumber |-> model, ProductModelID |-> IntCell(id)]
\* two products; the ModelNumber of each is its own description, the other
\* product's description, or a model number that is no description at all
ModelNumbers == Descriptions \cup {"M-1"}
MappingTables ==
    {<<MappingRow("Widget", m1, 100), MappingRow("Widget Pro", m2, 200)>> :
        m1 \in ModelNumbers, m2 \in ModelNumbers}

\* pd.read_excel on one column: text anywhere keeps the cells as they are
\* (object), otherwise a missing cell makes the whole column float64
ReadColumnCell(col, r) ==
    IF \E i \in 1..Len(col) : col[i].t = "str" THEN col[r]
    ELSE IF (\E i \in 1..Len(col) : col[i].t = "nan") /\ col[r].t = "int"
         THEN FloatCell(col[r].n)
         ELSE col[r]
ReadExcel(raw) ==
    [r \in 1..Len(raw) |->
        [c \in 1..Len(raw[r]) |-> ReadColumnCell([i \in 1..Len(raw) |-> raw[i][c]], r)]]

HKey1 == <<"K", "e", "y", "1">>
HKey2 == <<"K", "e", "y", "2">>
HLower == <<"k", "e", "y">>
HName == <<"N", "a", "m", "e">>
HeaderChoices == {<<HKey1, HName>>, <<HLower, HKey1>>, <<HKey1, HKey2>>}

Id100 == <<"1", "0", "0">>
RawCells == {IntCell(100), IntCell(1000), StrCell(Id100), NaNCell}
RawTables == [1..MaxRows -> [1..2 -> RawCells]]

\* styles of the original sheet, by sheet row and column: a header band, a
\* first column already filled with the highlight colour, a plain-font rest
StyleAt(r, c) ==
    IF r = 1 THEN [fill |-> "blue", font |-> "bold"]
    ELSE IF c = 1 THEN [fill |-> yellow_fill, font |-> "italic"]
    ELSE [fill |-> "green", font |-> "regular"]
SheetStyles(nrows, ncols) ==
    [r \in 1..(nrows + 1) |-> [c \in 1..ncols |-> StyleAt(r, c)]]

\* what every run starts from once the three tables are loaded
Start ==
    /\ pc = "validate"
    /\ err = ""
    /\ s3_df = <<>> /\ s2_df = <<>>
    /\ code_to_s3_desc = <<>> /\ code_to_s2_desc = <<>> /\ desc_to_number = <<>>
    /\ replace_pairs = <<>> /\ missing_count = 0
    /\ key_columns = <<>> /\ found_numbers = FALSE
    /\ main_df_copy = <<>> /\ replacements_log = <<>>
    /\ pair_idx = 0 /\ passes = 0
    /\ new_sheet = <<>>
    /\ output_written = FALSE

\* a fixed main table, for the runs that vary the abbreviation and mapping tables
FixedMain ==
    /\ main_cols = <<HKey1, HName>>
    /\ main_df = ReadExcel(<<<<IntCell(100), StrCell(Id100)>>, <<IntCell(1000), NaNCell>>>>)
    /\ orig_fill = SheetStyles(2, 2)

\* the runs that vary the main table: one or two codes, each with an s2 and an
\* s3 row, over three products whose ModelNumber is their description
SubstDescriptions == Descriptions \cup {"Gadget"}
SubstMapping ==
    <<MappingRow("Widget", "Widget", 100), MappingRow("Widget Pro", "Widget Pro", 200),
      MappingRow("Gadget", "Gadget", 1000)>>
AbbrRow(code, variation, desc) ==
    [code |-> code, variation |-> variation, description |-> desc]
SubstAbbrTables ==
    {<<AbbrRow("A1", VarS2, "Widget"), AbbrRow("A1", VarS3, d2)>> \o rest :
        d2 \in Descriptions,
        rest \in {<<>>} \cup {<<AbbrRow("B2", VarS2, d3), AbbrRow("B2", VarS3, d4)>> :
                                  d3 \in Descriptions, d4 \in SubstDescriptions}}

InitSubst ==
    /\ abbr_df \in SubstAbbrTables
    /\ mapping_cols = AllMappingCols
    /\ mapping_df = SubstMapping
    /\ main_cols \in HeaderChoices
    /\ \E raw \in RawTables : main_df = ReadExcel(raw)
    /\ orig_fill = SheetStyles(MaxRows, 2)
    /\ Start

Init ==
    /\ abbr_df \in AbbrTables
    /\ \/ mapping_cols = AllMappingCols /\ mapping_df \in MappingTables
       \/ /\ mapping_cols \in {AllMappingCols \ {col} : col \in AllMappingCols}
          /\ mapping_df = <<MappingRow("Widget", "Widget", 100),
                            MappingRow("Widget Pro", "Widget Pro", 200)>>
    /\ FixedMain
    /\ Start

----------------------------------------------------------------------------
(* The script, top to bottom *)

Fail(e) == pc' = "error" /\ err' = e

\* lines 58-65
ValidateMapping ==
    /\ pc = "validate"
    /\ IF \A i \in 1..Len(required_mapping_cols) : required_mapping_cols[i] \in mapping_cols
       THEN /\ abbr_df' = CoerceVariation(abbr_df)
            /\ pc' = "filter"
            /\ err' = err
       ELSE /\ Fail("ValueError: missing mapping columns")
            /\ UNCHANGED abbr_df
    /\ UNCHANGED <<mapping_cols, mapping_df, main_cols, main_df, orig_fill,
                   s3_df, s2_df, code_to_s3_desc, code_to_s2_desc, desc_to_number,
                   replace_pairs, missing_count, key_columns, found_numbers,
                   main_df_copy, replacements_log, pair_idx, passes, new_sheet,
                   output_written>>

\* lines 67-78
FilterVariations ==
    /\ pc = "filter"
    /\ LET s3 == FilterVariation(abbr_df, s3_variation)
           s2 == FilterVariation(abbr_df, s2_variation)
       IN IF s3 = <<>>
          THEN /\ Fail("ValueError: no s3 rows")
               /\ s3_df' = s3
               /\ UNCHANGED s2_df
          ELSE IF s2 = <<>>
          THEN /\ Fail("ValueError: no s2 rows")
               /\ s3_df' = s3 /\ s2_df' = s2
          ELSE /\ s3_df' = s3 /\ s2_df' = s2
               /\ pc' = "maps"
               /\ err' = err
    /\ UNCHANGED <<inputs, code_to_s3_desc, code_to_s2_desc, desc_to_number,
                   replace_pairs, missing_count, key_columns, found_numbers,
                   main_df_copy, replacements_log, pair_idx, passes, new_sheet,
                   output_written>>

\* lines 88-93
MapCodes ==
    /\ pc = "maps"
    /\ code_to_s3_desc' = CodeToDesc(s3_df)
    /\ code_to_s2_desc' = CodeToDesc(s2_df)
    /\ IF IndexColumn \in mapping_cols
       THEN /\ desc_to_number' = DescToNumber(mapping_df)
            /\ pc' = "pairs"
            /\ err' = err
       ELSE /\ Fail("KeyError: ModelNumber")
            /\ UNCHANGED desc_to_number
    /\ UNCHANGED <<inputs, s3_df, s2_df, replace_pairs, missing_count, key_columns,
                   found_numbers, main_df_copy, replacements_log, pair_idx, passes,
                   new_sheet, output_written>>

\* BuildReplacePairs without the check of lines 117-118
BuildReplacePairsNoAbort ==
    /\ pc = "pairs"
    /\ LET built == BuildPairs(S2Codes(s2_df), code_to_s2_desc, code_to_s3_desc,
                               desc_to_number)
       IN /\ replace_pairs' = built.pairs
          /\ missing_count' = built.missing
    /\ pc' = "scan"
    /\ UNCHANGED <<inputs, err, s3_df, s2_df, code_to_s3_desc, code_to_s2_desc,
                   desc_to_number, key_columns, found_numbers, main_df_copy,
                   replacements_log, pair_idx, passes, new_sheet, output_written>>

\* lines 95-118
BuildReplacePairs ==
    /\ pc = "pairs"
    /\ LET built == BuildPairs(S2Codes(s2_df), code_to_s2_desc, code_to_s3_desc,
                               desc_to_number)
       IN /\ replace_pairs' = built.pairs
          /\ missing_count' = built.missing
          /\ IF built.pairs = <<>>
             THEN Fail("ValueError: no replace pairs")
             ELSE pc' = "scan" /\ err' = err
    /\ UNCHANGED <<inputs, s3_df, s2_df, code_to_s3_desc, code_to_s2_desc,
                   desc_to_number, key_columns, found_numbers, main_df_copy,
                   replacements_log, pair_idx, passes, new_sheet, output_written>>

\* lines 122-143
ScanKeyColumns ==
    /\ pc = "scan"
    /\ key_columns' = KeyColumns(main_cols)
    /\ found_numbers' = FoundNumbers(main_df, main_cols, KeyColumns(main_cols), replace_pairs)
    /\ main_df_copy' = main_df
    /\ replacements_log' = <<>>
    /\ pair_idx' = 1
    /\ passes' = 1
    /\ pc' = "replace"
    /\ UNCHANGED <<inputs, err, s3_df, s2_df, code_to_s3_desc, code_to_s2_desc,
                   desc_to_number, replace_pairs, missing_count, new_sheet,
                   output_written>>

\* ReplaceStep with every pair matched against the table as loaded (main_df)
\* instead of the working copy
ReplaceStepOnOriginal ==
    /\ pc = "replace"
    /\ pair_idx <= Len(replace_pairs)
    /\ LET old_value == replace_pairs[pair_idx][1]
           new_value == replace_pairs[pair_idx][2]
           keyed(c) == \E k \in 1..Len(key_columns) : key_columns[k] = main_cols[c]
           hit(r, c) == keyed(c) /\ Matches(main_df[r][c], old_value)
           rows == 1..Len(main_df)
           hitSeq(c) == SelectSeq([r \in rows |-> r], LAMBDA r : hit(r, c))
           colLog(c) == [i \in 1..Len(hitSeq(c)) |->
                            LogRecord(hitSeq(c)[i], c, main_cols[c], old_value, new_value)]
       IN /\ main_df_copy' =
                [r \in rows |-> [c \in 1..Len(main_cols) |->
                    IF hit(r, c) THEN StrCell(new_value) ELSE main_df_copy[r][c]]]
          /\ replacements_log' = replacements_log \o colLog(1) \o colLog(2)
    /\ pair_idx' = pair_idx + 1
    /\ UNCHANGED <<inputs, pc, err, s3_df, s2_df, code_to_s3_desc, code_to_s2_desc,
                   desc_to_number, replace_pairs, missing_count, key_columns,
                   found_numbers, passes, new_sheet, output_written>>

\* lines 146-159: one iteration of `for old_value, new_value in replace_pairs`
ReplaceStep ==
    /\ pc = "replace"
    /\ pair_idx <= Len(replace_pairs)
    /\ LET st == ReplaceInColumns([df |-> main_df_copy, log |-> replacements_log],
                                  main_cols, key_columns,
                                  replace_pairs[pair_idx][1], replace_pairs[pair_idx][2])
       IN /\ main_df_copy' = st.df
          /\ replacements_log' = st.log
    /\ pair_idx' = pair_idx + 1
    /\ UNCHANGED <<inputs, pc, err, s3_df, s2_df, code_to_s3_desc, code_to_s2_desc,
                   desc_to_number, replace_pairs, missing_count, key_columns,
                   found_numbers, passes, new_sheet, output_written>>

LoopDone == pc = "replace" /\ pair_idx > Len(replace_pairs)

\* lines 161-188
WriteSheet ==
    /\ LoopDone
    /\ new_sheet' = BuildSheet(main_cols, main_df_copy, replacements_log, orig_fill)
    /\ pc' = "save"
    /\ UNCHANGED <<inputs, err, s3_df, s2_df, code_to_s3_desc, code_to_s2_desc,
                   desc_to_number, replace_pairs, missing_count, key_columns,
                   found_numbers, main_df_copy, replacements_log, pair_idx, passes,
                   output_written>>

\* lines 162-165: openpyxl.load_workbook raises
LoadWorkbookFails ==
    /\ LoopDone
    /\ Fail("Exception: failed to load workbook")
    /\ UNCHANGED <<inputs, s3_df, s2_df, code_to_s3_desc, code_to_s2_desc,
                   desc_to_number, replace_pairs, missing_count, key_columns,
                   found_numbers, main_df_copy, replacements_log, pair_idx, passes,
                   new_sheet, output_written>>

\* lines 191-192
SaveWorkbook ==
    /\ pc = "save"
    /\ output_written' = TRUE
    /\ pc' = "done"
    /\ UNCHANGED <<inputs, err, s3_df, s2_df, code_to_s3_desc, code_to_s2_desc,
                   desc_to_number, replace_pairs, missing_count, key_columns,
                   found_numbers, main_df_copy, replacements_log, pair_idx, passes,
                   new_sheet>>

\* lines 193-194: workbook.save raises
SaveFails ==
    /\ pc = "save"
    /\ Fail("Exception: failed to save output")
    /\ UNCHANGED <<inputs, s3_df, s2_df, code_to_s3_desc, code_to_s2_desc,
                   desc_to_number, replace_pairs, missing_count, key_columns,
                   found_numbers, main_df_copy, replacements_log, pair_idx, passes,
                   new_sheet, output_written>>

Next ==
    \/ ValidateMapping
    \/ FilterVariations
    \/ MapCodes
    \/ BuildReplacePairs
    \/ ScanKeyColumns
    \/ ReplaceStep
    \/ WriteSheet
    \/ LoadWorkbookFails
    \/ SaveWorkbook
    \/ SaveFails

Spec == Init /\ [][Next]_vars

SpecSubst == InitSubst /\ [][Next]_vars

\* the find-and-replace loop started again on its own output, same pairs
RunAgain ==
    /\ LoopDone
    /\ passes = 1
    /\ pair_idx' = 1
    /\ passes' = 2
    /\ UNCHANGED <<inputs, pc, err, s3_df, s2_df, code_to_s3_desc, code_to_s2_desc,
                   desc_to_number, replace_pairs, missing_count, key_columns,
                   found_numbers, main_df_copy, replacements_log, new_sheet,
                   output_written>>

NextTwice == Next \/ RunAgain

SpecTwice == InitSubst /\ [][NextTwice]_vars

----------------------------------------------------------------------------
(* Properties *)

Cells(df) == {<<r, c>> : r \in 1..Len(df), c \in 1..Len(main_cols)}
CodesOf(df) == {df[i].code : i \in 1..Len(df)}
Count(s, x) == Cardinality({i \in 1..Len(s) : s[i] = x})

\* the loop that builds replace_pairs has run
PairsBuilt ==
    \/ pc \in {"scan", "replace", "save", "done"}
    \/ err \in {"ValueError: no replace pairs", "Exception: failed to load workbook",
                "Exception: failed to save output"}

\* the code has a description in both variations and both descriptions have an
\* identifier in the script's description-to-identifier table
Linked(code) ==
    /\ code \in DOMAIN code_to_s2_desc /\ code \in DOMAIN code_to_s3_desc
    /\ code_to_s2_desc[code] \in DOMAIN desc_to_number
    /\ code_to_s3_desc[code] \in DOMAIN desc_to_number
PairOf(code) ==
    <<desc_to_number[code_to_s2_desc[code]], desc_to_number[code_to_s3_desc[code]]>>

PairsOfLinkedCodes ==
    /\ \A code \in CodesOf(s2_df) :
          Linked(code) =>
              Count(replace_pairs, PairOf(code)) =
                  Cardinality({other \in CodesOf(s2_df) :
                                  Linked(other) /\ PairOf(other) = PairOf(code)})
    /\ \A i \in 1..Len(replace_pairs) :
          \E code \in CodesOf(s2_df) : Linked(code) /\ PairOf(code) = replace_pairs[i]

\* C1 (as stated): every code of either variation subset with all links yields
\* exactly one pair (s2 identifier, s3 identifier); every code of either subset
\* that misses a link yields no pair and adds one to the miss count.
C1_MissForEveryUnlinkedCode ==
    PairsBuilt =>
        /\ PairsOfLinkedCodes
        /\ missing_count =
              Cardinality({code \in CodesOf(s2_df) \cup CodesOf(s3_df) : ~Linked(code)})

\* C1 (amended): every code of the source (s2) subset with all links yields
\* exactly one pair (s2 identifier, s3 identifier) and no other pair exists; every
\* code of the source subset that misses a link yields no pair and adds one to
\* the miss count; a code that occurs in the target (s3) subset only is never
\* visited: no pair, no miss.
C1_PairsAndMissesOfSourceCodes ==
    PairsBuilt =>
        /\ PairsOfLinkedCodes
        /\ Len(replace_pairs) = Cardinality({code \in CodesOf(s2_df) : Linked(code)})
        /\ missing_count = Cardinality({code \in CodesOf(s2_df) : ~Linked(code)})

\* a run with a pair, and a miss for a source code whose s2 description has an
\* identifier and whose s3 side is missing
C1_Witness ==
    /\ pc = "scan"
    /\ Len(replace_pairs) >= 1
    /\ missing_count >= 1
    /\ \E code \in CodesOf(s2_df) :
          /\ code_to_s2_desc[code] \in DOMAIN desc_to_number
          /\ ~Linked(code)

\* the mapping row whose Description is desc (descriptions are distinct here)
RowsDescribed(desc) == {i \in 1..Len(mapping_df) : mapping_df[i].Description = desc}

\* C2: with Description and ProductModelID present the run does not fail for
\* lack of another mapping column, and a code's description resolves to the
\* ProductModelID of the mapping row whose Description equals it.
C2_ResolvesByDescription ==
    /\ err # "KeyError: ModelNumber"
    /\ PairsBuilt =>
          \A code \in DOMAIN code_to_s2_desc :
              LET desc == code_to_s2_desc[code]
              IN \A i \in RowsDescribed(desc) :
                    /\ desc \in DOMAIN desc_to_number
                    /\ desc_to_number[desc] = ToStr(mapping_df[i].ProductModelID)

NoRows(tag) ==
    \A i \in 1..Len(abbr_df) : ~ContainsNoCase(ToStr(abbr_df[i].variation), tag)
MissingRequiredColumn == ~({"Description", "ProductModelID"} \subseteq mapping_cols)
NoPairsResolved == PairsBuilt /\ replace_pairs = <<>>
FatalCondition ==
    NoRows(s3_variation) \/ NoRows(s2_variation) \/ MissingRequiredColumn \/ NoPairsResolved

\* C5: a run in which a variation tag matches no row, a required mapping column
\* is missing or no pair is resolved never gets past the check of that
\* condition: it ends in the error state, where nothing more happens and no
\* sheet has been rebuilt or saved; a run that reaches the save step, or has
\* written the output, met none of these conditions.
C5_FatalBeforeOutput ==
    /\ FatalCondition => pc \in {"validate", "filter", "maps", "pairs", "error"}
    /\ NoPairsResolved => pc = "error"
    /\ (FatalCondition /\ pc = "error") => (~output_written /\ new_sheet = <<>>)
    /\ pc = "error" => ~ENABLED Next
    /\ (pc \in {"save", "done"} \/ output_written) => ~FatalCondition

\* a run that resolved no pair and was stopped for it
C5_Witness ==
    /\ pc = "error"
    /\ err = "ValueError: no replace pairs"
    /\ ~NoRows(s3_variation) /\ ~NoRows(s2_variation) /\ ~MissingRequiredColumn

\* the description of the first row of df that carries the code
FirstRowDescription(df, code) ==
    df[CHOOSE i \in 1..Len(df) :
          df[i].code = code /\ \A j \in 1..(i - 1) : df[j].code # code].description

\* C6: in each variation subset every code maps to the description of the first
\* row carrying it, whatever that description is (an empty one included).
C6_FirstRowWins ==
    pc \in {"pairs", "scan", "replace", "save", "done"} =>
        /\ DOMAIN code_to_s3_desc = CodesOf(s3_df)
        /\ DOMAIN code_to_s2_desc = CodesOf(s2_df)
        /\ \A code \in CodesOf(s3_df) :
              code_to_s3_desc[code] = FirstRowDescription(s3_df, code)
        /\ \A code \in CodesOf(s2_df) :
              code_to_s2_desc[code] = FirstRowDescription(s2_df, code)

\* the find-and-replace loop has run to its end (at least once)
Substituted ==
    \/ LoopDone
    \/ pc \in {"save", "done"}
    \/ err \in {"Exception: failed to load workbook", "Exception: failed to save output"}

Records(r, c) ==
    {i \in 1..Len(replacements_log) :
        replacements_log[i].row = r + 1 /\ replacements_log[i].column = c}
Sources == {replace_pairs[i][1] : i \in 1..Len(replace_pairs)}
Targets == {replace_pairs[i][2] : i \in 1..Len(replace_pairs)}
NoTargetIsSource == Targets \cap Sources = {}

\* C3: a step of the find-and-replace loop changes a cell only if the cell is in
\* a key column and its string form equals the source identifier of the pair
\* being applied; every other cell keeps its value.
C3_OnlyExactMatchesChange ==
    [][pc = "replace" =>
          \A rc \in Cells(main_df_copy) :
              main_df_copy'[rc[1]][rc[2]] # main_df_copy[rc[1]][rc[2]] =>
                  /\ IsKeyColumn(main_cols[rc[2]])
                  /\ ToStr(main_df_copy[rc[1]][rc[2]]) = replace_pairs[pair_idx][1]]_vars

\* C4: no step changes the main table as loaded (main_df, its headers); the
\* working copy has the rows and columns of the main table at every moment, and
\* the input value in every cell of a column whose name does not start with
\* "Key"; the rebuilt sheet has the input's headers, rows and columns.
C4_Frame ==
    [][/\ main_df' = main_df
       /\ main_cols' = main_cols
       /\ main_df_copy' # <<>> =>
             /\ Len(main_df_copy') = Len(main_df)
             /\ \A r \in 1..Len(main_df) : Len(main_df_copy'[r]) = Len(main_cols)
             /\ \A rc \in Cells(main_df) :
                   ~StartsWith(main_cols[rc[2]], <<"K", "e", "y">>) =>
                       main_df_copy'[rc[1]][rc[2]] = main_df[rc[1]][rc[2]]
       /\ new_sheet' # <<>> =>
             /\ Len(new_sheet') = Len(main_df) + 1
             /\ \A r \in 1..Len(new_sheet') : Len(new_sheet'[r]) = Len(main_cols)
             /\ \A c \in 1..Len(main_cols) : new_sheet'[1][c].value = StrCell(main_cols[c])]_vars

\* the loop has replaced a cell of a key column while a column that is no key
\* column (one named "key" included) holds a source identifier
C4_Witness ==
    /\ pc = "done"
    /\ replacements_log # <<>>
    /\ \E rc \in Cells(main_df) :
          /\ ~StartsWith(main_cols[rc[2]], <<"K", "e", "y">>)
          /\ ToStr(main_df[rc[1]][rc[2]]) \in Sources

\* C7: after the loop the log holds exactly one record for each cell whose value
\* differs from the input and none for a cell that does not; a record names a
\* data row and a key column by position and by name, and the pair applied.
C7_OneRecordPerChangedCell ==
    Substituted =>
        /\ \A rc \in Cells(main_df) :
              Cardinality(Records(rc[1], rc[2])) =
                  (IF main_df_copy[rc[1]][rc[2]] # main_df[rc[1]][rc[2]] THEN 1 ELSE 0)
        /\ \A i \in 1..Len(replacements_log) :
              LET rec == replacements_log[i]
              IN /\ rec.row \in 2..(Len(main_df) + 1)
                 /\ rec.column \in 1..Len(main_cols)
                 /\ rec.column_name = main_cols[rec.column]
                 /\ <<rec.old_value, rec.new_value>> \in Range(replace_pairs)

\* C8: in the rebuilt sheet a cell carries the highlight fill if and only if its
\* value differs from the input (its coordinates are in a record); every other
\* cell, the header row and the non-key columns included, has the style of the
\* original sheet at its row and column.
C8_HighlightIffChanged ==
    pc \in {"save", "done"} =>
        \A r \in 1..Len(new_sheet), c \in 1..Len(main_cols) :
            LET changed == r >= 2 /\ main_df_copy[r - 1][c] # main_df[r - 1][c]
            IN /\ changed <=> Records(r - 1, c) # {}
               /\ changed => new_sheet[r][c].style = [orig_fill[r][c] EXCEPT !.fill = yellow_fill]
               /\ ~changed => new_sheet[r][c].style = orig_fill[r][c]

\* the pairs whose source identifier is the string form of the input cell
PairsFor(rc) ==
    {i \in 1..Len(replace_pairs) : replace_pairs[i][1] = ToStr(main_df[rc[1]][rc[2]])}
Last(S) == CHOOSE i \in S : \A j \in S : j <= i
First(S) == CHOOSE i \in S : \A j \in S : i <= j
Ambiguous(rc) == IsKeyColumn(main_cols[rc[2]]) /\ Cardinality(PairsFor(rc)) >= 2

====
